---- MODULE Spec2Model ----
(***************************************************************************)
(* A model of scripts/generate-metadata.py: the recursive size aggregation *)
(* get_entry_size, the summary extraction generate_metadata and the batch  *)
(* driver main.                                                            *)
(*                                                                         *)
(* JSON values are records of one shape, so that any two can be compared:  *)
(*   kind  = "dict"   a mapping; keys is the set of the keys it holds      *)
(*   kind  = "list"   a sequence; items are its elements, metadata first   *)
(*   kind  = "scalar" a number, a string, a boolean or null                *)
(***************************************************************************)
EXTENDS Integers, Sequences, FiniteSets

VARIABLES
    entry,            \* the node a caller passes to get_entry_size
    seen_inodes,      \* the dedup set that caller holds
    returns,          \* the last call made, if any: set before and after, size, visits
    data_dir_exists,  \* main: whether docs/data exists
    metadata_files,   \* main: the input files, in the order of the loop
    i,                \* main: the files the loop has finished
    outputs,          \* main: the summaries written, each with its file's index
    stderr,           \* main: the indexes of the files reported as failing
    exit_code         \* main: None while running, then the exit status

aggVars == <<entry, seen_inodes, returns>>
mainVars == <<data_dir_exists, metadata_files, i, outputs, stderr, exit_code>>
vars == <<entry, seen_inodes, returns,
          data_dir_exists, metadata_files, i, outputs, stderr, exit_code>>

----------------------------------------------------------------------------
(* Bounds of the model.                                                    *)

\* inode numbers are 1..MaxIno
MaxIno == 2
\* disk-usage sizes are 1..MaxDsize
MaxDsize == 2
\* nodes (metadata elements not counted) of a tree passed to get_entry_size
MaxAggNodes == 3
\* nodes (metadata elements not counted) below the root of a document
MaxNodes == 4
\* input files of a batch
MaxFiles == 3

----------------------------------------------------------------------------
(* JSON values.                                                            *)

\* Python's None: what dict.get gives for an absent key.
None == -1

Inodes == 1..MaxIno

Dict(ks, n, a, d, ino) ==
    [kind |-> "dict", keys |-> ks, name |-> n, asize |-> a, dsize |-> d,
     ino |-> ino, items |-> <<>>]

List(elems) ==
    [kind |-> "list", keys |-> {}, name |-> "", asize |-> 0, dsize |-> 0,
     ino |-> 0, items |-> elems]

Scalar ==
    [kind |-> "scalar", keys |-> {}, name |-> "", asize |-> 0, dsize |-> 0,
     ino |-> 0, items |-> <<>>]

\* isinstance(x, dict), isinstance(x, list)
IsDict(x) == x.kind = "dict"
IsList(x) == x.kind = "list"

\* dict.get(key, default)
Get(d, key, default) == IF key \in d.keys THEN d[key] ELSE default

(* The file nodes of the inputs: every combination of a present or absent  *)
(* dsize and a present or absent ino; the one with neither is the empty    *)
(* mapping {}. asize is never the dsize.                                   *)
FileNodes ==
    {Dict({"name", "asize", "dsize", "ino"}, "f", d + 10, d, n) :
        d \in 1..MaxDsize, n \in Inodes}
    \cup {Dict({"name", "asize", "dsize"}, "f", d + 10, d, 0) : d \in 1..MaxDsize}
    \cup {Dict({"name", "asize", "ino"}, "f", 10, 0, n) : n \in Inodes}
    \cup {Dict({}, "", 0, 0, 0)}

(* The first element of a sequence: a directory's metadata mapping, which  *)
(* carries a size and an inode of its own, or something that is no mapping.*)
DirMeta == Dict({"name", "asize", "dsize", "ino"}, "d", MaxDsize + 10, MaxDsize, 1)

Metas == {DirMeta, Scalar}

RECURSIVE NodesOfWeight(_, _), SeqsOfWeight(_, _)

(* The nodes with exactly n nodes in them, metadata elements not counted,  *)
(* the file nodes taken from files.                                        *)
NodesOfWeight(files, n) ==
    IF n = 1
    THEN files \cup {Scalar, List(<<>>)} \cup {List(<<m>>) : m \in Metas}
    ELSE {List(<<m>> \o s) : m \in Metas, s \in SeqsOfWeight(files, n - 1)}

\* The sequences of nodes with exactly n nodes in all.
SeqsOfWeight(files, n) ==
    IF n = 0
    THEN {<<>>}
    ELSE UNION {{<<t>> \o s : t \in NodesOfWeight(files, k),
                              s \in SeqsOfWeight(files, n - k)} : k \in 1..n}

Nodes(files, max) == UNION {NodesOfWeight(files, n) : n \in 1..max}

----------------------------------------------------------------------------
(* get_entry_size.                                                         *)

(* The value of a call: the size it returns, the dedup set as it leaves it *)
(* and, in order, the calls made on mappings (each with whether it reached *)
(* the return of dsize, and what it returned).                             *)
Ret(size, seen, log) == [size |-> size, seen |-> seen, log |-> log]

\* FileEntrySize without line 60: the inode is never marked as seen
FileEntrySizeNeverMarks(e, ino, seen) ==
    IF ino # None /\ ino \in seen
    THEN Ret(0, seen, <<[node |-> e, counted |-> FALSE, ret |-> 0]>>)
    ELSE LET size == Get(e, "dsize", 0)
         IN  Ret(size, seen, <<[node |-> e, counted |-> TRUE, ret |-> size]>>)

\* FileEntrySize returning asize + dsize, which the comment of line 62 rules out
FileEntrySizeWithAsize(e, ino, seen) ==
    IF ino # None /\ ino \in seen
    THEN Ret(0, seen, <<[node |-> e, counted |-> FALSE, ret |-> 0]>>)
    ELSE LET size == Get(e, "asize", 0) + Get(e, "dsize", 0)
         IN  Ret(size,
                 IF ino # None THEN seen \cup {ino} ELSE seen,
                 <<[node |-> e, counted |-> TRUE, ret |-> size]>>)

\* lines 51-63, with the inode taken as given
FileEntrySize(e, ino, seen) ==
    IF ino # None /\ ino \in seen
    THEN Ret(0, seen, <<[node |-> e, counted |-> FALSE, ret |-> 0]>>)
    ELSE LET size == Get(e, "dsize", 0)
         IN  Ret(size,
                 IF ino # None THEN seen \cup {ino} ELSE seen,
                 <<[node |-> e, counted |-> TRUE, ret |-> size]>>)

\* the loop of line 71 started at the metadata element
FirstChildIsMetadata == 1 - 1

\* the first index of the loop of line 71
FirstChild == 1

RECURSIVE GetEntrySize(_, _), SumChildren(_, _, _), SumChildrenOwnSets(_, _, _)

\* SumChildren with line 73 calling get_entry_size(child): each child gets a new set
SumChildrenOwnSets(items, k, acc) ==
    IF k >= Len(items)
    THEN acc
    ELSE LET r == GetEntrySize(items[k + 1], {})
         IN  SumChildrenOwnSets(items, k + 1,
                                Ret(acc.size + r.size, acc.seen, acc.log \o r.log))

GetEntrySize(e, seen) ==
    IF IsDict(e)
    THEN FileEntrySize(e, Get(e, "ino", None), seen)
    ELSE IF IsList(e) /\ Len(e.items) >= 1
         THEN SumChildren(e.items, FirstChild, Ret(0, seen, <<>>))
         ELSE Ret(0, seen, <<>>)

\* for i in range(k, len(entry)): total_size += get_entry_size(entry[i], seen_inodes)
\* (items is indexed from 1: entry[k] is items[k + 1])
SumChildren(items, k, acc) ==
    IF k >= Len(items)
    THEN acc
    ELSE LET r == GetEntrySize(items[k + 1], acc.seen)
         IN  SumChildren(items, k + 1,
                         Ret(acc.size + r.size, r.seen, acc.log \o r.log))

----------------------------------------------------------------------------
(* generate_metadata.                                                      *)

PassThrough == {"architecture", "timestamp", "runner", "total_disk_size",
                "available_space"}

(* An input file: whether open and json.load succeed and, when they do,    *)
(* the document: the pass-through keys it holds, whether it holds "data",  *)
(* and the value of "data".                                                *)
Document(ok, fs, has, d) ==
    [parses |-> ok, fields |-> fs, has_data |-> has, data |-> d]

\* TopLevelEntry with get_entry_size(entry): every entry gets a set of its own
TopLevelEntryOwnSet(child, acc) ==
    IF IsList(child) /\ Len(child.items) > 0
    THEN LET entry_meta == child.items[1]
         IN  IF IsDict(entry_meta)
             THEN LET r == GetEntrySize(child, {})
                  IN  [top |-> Append(acc.top,
                                      <<r.size, Get(entry_meta, "name", "unknown"),
                                        Len(child.items) > 1>>),
                       shared |-> acc.shared,
                       count |-> acc.count + 1]
             ELSE acc
    ELSE IF IsDict(child)
         THEN LET r == GetEntrySize(child, {})
              IN  [top |-> Append(acc.top,
                                  <<r.size, Get(child, "name", "unknown"), FALSE>>),
                   shared |-> acc.shared,
                   count |-> acc.count + 1]
         ELSE acc

\* lines 116-132: one turn of the loop over the root's children
TopLevelEntry(child, acc) ==
    IF IsList(child) /\ Len(child.items) > 0
    THEN LET entry_meta == child.items[1]
         IN  IF IsDict(entry_meta)
             THEN LET r == GetEntrySize(child, acc.shared)
                  IN  [top |-> Append(acc.top,
                                      <<r.size, Get(entry_meta, "name", "unknown"),
                                        Len(child.items) > 1>>),
                       shared |-> r.seen,
                       count |-> acc.count + 1]
             ELSE acc
    ELSE IF IsDict(child)
         THEN LET r == GetEntrySize(child, acc.shared)
              IN  [top |-> Append(acc.top,
                                  <<r.size, Get(child, "name", "unknown"), FALSE>>),
                   shared |-> r.seen,
                   count |-> acc.count + 1]
         ELSE acc

RECURSIVE TopLevelLoop(_, _, _)

\* lines 110-113: for i in range(1, len(root_entry)), from k on
TopLevelLoop(items, k, acc) ==
    IF k >= Len(items)
    THEN acc
    ELSE TopLevelLoop(items, k + 1, TopLevelEntry(items[k + 1], acc))

\* line 111: the set the entries of the breakdown share
SharedInodes == {}

RECURSIVE SumOwnSets(_, _)

\* the sum of get_entry_size(child) over the elements from the k-th on
SumOwnSets(items, k) ==
    IF k > Len(items)
    THEN 0
    ELSE GetEntrySize(items[k], {}).size + SumOwnSets(items, k + 1)

\* TotalSize as the sum of one get_entry_size(child) per root child: no set is shared
TotalSizePerChild(root_entry) == SumOwnSets(root_entry.items, 2)

\* TotalSize with the root's own metadata size added to its children's
TotalSizeWithRootMeta(root_entry) ==
    GetEntrySize(root_entry, {}).size + Get(root_entry.items[1], "dsize", 0)

\* line 104: get_entry_size(root_entry), the dedup set defaulting to a new one
TotalSize(root_entry) == GetEntrySize(root_entry, {}).size

\* TotalEntries with the count of lines 112, 125 and 132, which line 135 does not use
TotalEntriesCounted(root_entry) ==
    TopLevelLoop(root_entry.items, 1,
                 [top |-> <<>>, shared |-> SharedInodes, count |-> 0]).count

\* line 135
TotalEntries(root_entry) == Len(root_entry.items) - 1

\* lines 85-91
Summary(doc) ==
    [keys |-> PassThrough,
     pass |-> [k \in PassThrough |-> IF k \in doc.fields THEN 7 ELSE None],
     total_size |-> None, top_entries |-> <<>>, total_entries |-> None]

\* lines 99-135: what the root entry adds to the summary
WithRoot(metadata, root_entry) ==
    IF IsList(root_entry) /\ Len(root_entry.items) > 0
    THEN LET root_meta == root_entry.items[1]
             m1 == IF IsDict(root_meta)
                   THEN [metadata EXCEPT !.keys = @ \cup {"total_size"},
                                         !.total_size = TotalSize(root_entry)]
                   ELSE metadata
             loop == TopLevelLoop(root_entry.items, 1,
                                  [top |-> <<>>, shared |-> SharedInodes, count |-> 0])
         IN  [m1 EXCEPT !.keys = @ \cup {"top_entries", "total_entries"},
                        !.top_entries = loop.top,
                        !.total_entries = TotalEntries(root_entry)]
    ELSE metadata

(* lines 81-139. The value: whether an exception left the function before  *)
(* the output file was written, and the summary written otherwise. Line 94 *)
(* reads "data" with [] as the default; len() of a number or null raises,  *)
(* and so does index 3 of a mapping.                                       *)
GenerateMetadata(doc) ==
    IF ~doc.parses
    THEN [raised |-> TRUE, metadata |-> Summary(doc)]
    ELSE LET ncdu_data == IF doc.has_data THEN doc.data ELSE List(<<>>)
             metadata == Summary(doc)
         IN  IF IsList(ncdu_data)
             THEN IF Len(ncdu_data.items) > 3
                  THEN [raised |-> FALSE,
                        metadata |-> WithRoot(metadata, ncdu_data.items[4])]
                  ELSE [raised |-> FALSE, metadata |-> metadata]
             ELSE IF IsDict(ncdu_data)
                  THEN IF Cardinality(ncdu_data.keys) > 3
                       THEN [raised |-> TRUE, metadata |-> metadata]
                       ELSE [raised |-> FALSE, metadata |-> metadata]
                  ELSE [raised |-> TRUE, metadata |-> metadata]

----------------------------------------------------------------------------
(* A caller of get_entry_size: one node, one dedup set, call after call.    *)

AggIdle == entry = Scalar /\ seen_inodes = {} /\ returns = <<>>

MainIdle ==
    /\ data_dir_exists = FALSE
    /\ metadata_files = <<>>
    /\ i = 0
    /\ outputs = <<>>
    /\ stderr = <<>>
    /\ exit_code = None

AggInit ==
    /\ entry \in Nodes(FileNodes, MaxAggNodes)
    /\ seen_inodes \in SUBSET Inodes
    /\ returns = <<>>
    /\ MainIdle

\* get_entry_size(entry, seen_inodes)
CallGetEntrySize ==
    /\ LET r == GetEntrySize(entry, seen_inodes)
       IN  /\ seen_inodes' = r.seen
           /\ returns' = <<[own |-> FALSE, before |-> seen_inodes,
                            after |-> r.seen, size |-> r.size, log |-> r.log]>>
    /\ UNCHANGED <<entry, mainVars>>

\* get_entry_size(entry): lines 48-49 give the call a set of its own
CallGetEntrySizeDefault ==
    /\ LET r == GetEntrySize(entry, {})
       IN  returns' = <<[own |-> TRUE, before |-> {},
                         after |-> r.seen, size |-> r.size, log |-> r.log]>>
    /\ UNCHANGED <<entry, seen_inodes, mainVars>>

AggNext == CallGetEntrySize \/ CallGetEntrySizeDefault

SpecAgg == AggInit /\ [][AggNext]_vars

----------------------------------------------------------------------------
(* main.                                                                   *)

\* lines 156-158
DataDirMissing ==
    /\ exit_code = None
    /\ ~data_dir_exists
    /\ exit_code' = 1
    /\ UNCHANGED <<aggVars, data_dir_exists, metadata_files, i, outputs, stderr>>

\* lines 163-165
NoFilesFound ==
    /\ exit_code = None
    /\ data_dir_exists
    /\ metadata_files = <<>>
    /\ exit_code' = 1
    /\ UNCHANGED <<aggVars, data_dir_exists, metadata_files, i, outputs, stderr>>

\* lines 167-170: a turn of the loop in which generate_metadata returns
ProcessFile ==
    /\ exit_code = None
    /\ data_dir_exists
    /\ i < Len(metadata_files)
    /\ LET r == GenerateMetadata(metadata_files[i + 1])
       IN  /\ ~r.raised
           /\ outputs' = Append(outputs, [file |-> i + 1, metadata |-> r.metadata])
    /\ i' = i + 1
    /\ UNCHANGED <<aggVars, data_dir_exists, metadata_files, stderr, exit_code>>

\* HandleException without the sys.exit(1) of line 173: the loop goes on
HandleExceptionAndContinue ==
    /\ exit_code = None
    /\ data_dir_exists
    /\ i < Len(metadata_files)
    /\ GenerateMetadata(metadata_files[i + 1]).raised
    /\ stderr' = Append(stderr, i + 1)
    /\ i' = i + 1
    /\ UNCHANGED <<aggVars, data_dir_exists, metadata_files, outputs, exit_code>>

\* lines 171-173: a turn of the loop in which generate_metadata raises
HandleException ==
    /\ exit_code = None
    /\ data_dir_exists
    /\ i < Len(metadata_files)
    /\ GenerateMetadata(metadata_files[i + 1]).raised
    /\ stderr' = Append(stderr, i + 1)
    /\ exit_code' = 1
    /\ UNCHANGED <<aggVars, data_dir_exists, metadata_files, i, outputs>>

\* line 175 and the return of main
Success ==
    /\ exit_code = None
    /\ data_dir_exists
    /\ metadata_files # <<>>
    /\ i = Len(metadata_files)
    /\ exit_code' = 0
    /\ UNCHANGED <<aggVars, data_dir_exists, metadata_files, i, outputs, stderr>>

MainNext ==
    \/ DataDirMissing
    \/ NoFilesFound
    \/ ProcessFile
    \/ HandleException
    \/ Success

(* The documents of the inputs. "data" is the array                        *)
(* [version, timestamp, metadata, root_entry]; the root entry is any       *)
(* sequence of a metadata element and children, or no such sequence.       *)
DataArray(root_entry) == List(<<Scalar, Scalar, Dict({}, "", 0, 0, 0), root_entry>>)

\* The documents whose "data" locates no directory, or that cannot be read.
OddDocuments ==
    {Document(TRUE, fs, TRUE, DataArray(r)) :
        fs \in {{}, PassThrough}, r \in {List(<<>>), Scalar, DirMeta}}
    \cup {Document(TRUE, fs, TRUE, d) :
            fs \in {{}, PassThrough},
            d \in {List(<<Scalar, Scalar, Dict({}, "", 0, 0, 0)>>), List(<<>>),
                   Scalar, DirMeta, Dict({}, "", 0, 0, 0)}}
    \cup {Document(TRUE, PassThrough, FALSE, Scalar),
          Document(FALSE, {}, FALSE, Scalar)}

MainStart ==
    /\ i = 0
    /\ outputs = <<>>
    /\ stderr = <<>>
    /\ exit_code = None

(* The file nodes of the documents: two links to inode 1 of different      *)
(* sizes, a file with inode 2, one with no inode, one with no dsize, and   *)
(* the empty mapping.                                                      *)
DocumentFiles ==
    {Dict({"name", "asize", "dsize", "ino"}, "f", 11, 1, 1),
     Dict({"name", "asize", "dsize", "ino"}, "f", 12, 2, 1),
     Dict({"name", "asize", "dsize", "ino"}, "f", 11, 1, 2),
     Dict({"name", "asize", "dsize"}, "f", 12, 2, 0),
     Dict({"name", "asize", "ino"}, "f", 10, 0, 2),
     Dict({}, "", 0, 0, 0)}

(* main on docs/data holding at most one input file. A root entry headed   *)
(* by a mapping has up to MaxNodes nodes below it, one headed by something *)
(* else two fewer.                                                         *)
GenInit ==
    /\ AggIdle
    /\ MainStart
    /\ \/ /\ data_dir_exists \in BOOLEAN
          /\ metadata_files = <<>>
       \/ /\ data_dir_exists = TRUE
          /\ \E d \in OddDocuments : metadata_files = <<d>>
       \/ /\ data_dir_exists = TRUE
          /\ \E m \in Metas :
                metadata_files = <<Document(TRUE, PassThrough, TRUE, DataArray(List(<<m>>)))>>
       \/ /\ data_dir_exists = TRUE
          /\ \E m \in Metas :
             \E n \in 1..(IF IsDict(m) THEN MaxNodes ELSE MaxNodes - 2) :
             \E k \in 1..n :
             \E t \in NodesOfWeight(DocumentFiles, k), s \in SeqsOfWeight(DocumentFiles, n - k) :
                metadata_files =
                    <<Document(TRUE, PassThrough, TRUE, DataArray(List(<<m, t>> \o s)))>>

SpecGen == GenInit /\ [][MainNext]_vars

\* A root entry whose two top-level directories each hold a link to inode 1.
HardLinkPair ==
    List(<<DirMeta,
           List(<<DirMeta, Dict({"name", "asize", "dsize", "ino"}, "f", 11, 1, 1)>>),
           List(<<DirMeta, Dict({"name", "asize", "dsize", "ino"}, "f", 12, 2, 1)>>)>>)

\* The input files of a batch: two that are summarized and two that raise.
BatchDocuments ==
    {Document(TRUE, PassThrough, TRUE, DataArray(HardLinkPair)),
     Document(TRUE, {}, TRUE, List(<<>>)),
     Document(TRUE, PassThrough, TRUE, Scalar),
     Document(FALSE, {}, FALSE, Scalar)}

\* main on docs/data holding up to MaxFiles input files
MainInit ==
    /\ AggIdle
    /\ MainStart
    /\ data_dir_exists \in BOOLEAN
    /\ \E n \in 0..MaxFiles :
          /\ metadata_files \in [1..n -> BatchDocuments]
          /\ data_dir_exists \/ n = 0

SpecMain == MainInit /\ [][MainNext]_vars

----------------------------------------------------------------------------
(* Properties of main.                                                     *)

Raises(k) == GenerateMetadata(metadata_files[k]).raised

Written == {outputs[k].file : k \in 1..Len(outputs)}

\* main has ended after its loop started
LoopEnded == exit_code # None /\ data_dir_exists /\ metadata_files # <<>>

Failing == {k \in 1..Len(metadata_files) : Raises(k)}

FirstFailing == CHOOSE k \in Failing : \A j \in Failing : k <= j

----------------------------------------------------------------------------
(* Properties of get_entry_size.                                           *)

RECURSIVE FilesOf(_), FilesFrom(_, _)

(* The file nodes of a tree in depth-first, left-to-right order: a mapping *)
(* is one; a sequence holds those of its elements after the first.         *)
FilesOf(e) ==
    IF IsDict(e) THEN <<e>>
    ELSE IF IsList(e) THEN FilesFrom(e.items, 2)
    ELSE <<>>

FilesFrom(items, k) ==
    IF k > Len(items) THEN <<>> ELSE FilesOf(items[k]) \o FilesFrom(items, k + 1)

HasIno(f) == "ino" \in f.keys

\* the inodes carried by the first n nodes of a sequence of file nodes
InodesOfFirst(fs, n) == {fs[k].ino : k \in {j \in 1..n : HasIno(fs[j])}}

InodesOf(fs) == InodesOfFirst(fs, Len(fs))

\* the disk-usage size of a file node, 0 when it has none
Dsize(f) == IF "dsize" \in f.keys THEN f.dsize ELSE 0

RECURSIVE SumDsize(_, _), SumRet(_, _)

SumDsize(fs, n) == IF n = 0 THEN 0 ELSE SumDsize(fs, n - 1) + Dsize(fs[n])

SumRet(log, n) == IF n = 0 THEN 0 ELSE SumRet(log, n - 1) + log[n].ret

\* no two file nodes of the sequence carry the same inode
DistinctInodes(fs) ==
    \A j, k \in 1..Len(fs) : (j # k /\ HasIno(fs[j]) /\ HasIno(fs[k])) => fs[j].ino # fs[k].ino

\* neither a mapping nor a sequence with at least one element
Unrecognized(e) == ~IsDict(e) /\ ~(IsList(e) /\ Len(e.items) >= 1)

(* C1: in one call of get_entry_size the file nodes are visited in         *)
(* depth-first, left-to-right order, and the k-th one contributes its      *)
(* dsize exactly when it carries no inode or its inode is neither in the   *)
(* set the caller passed nor carried by an earlier file node; otherwise it *)
(* contributes 0. The call returns the sum of the contributions.           *)
C1_DedupPerPass ==
    \A c \in 1..Len(returns) :
        LET r == returns[c]
            fs == FilesOf(entry)
        IN  /\ Len(r.log) = Len(fs)
            /\ \A k \in 1..Len(fs) :
                  LET fresh == ~HasIno(fs[k])
                               \/ fs[k].ino \notin (r.before \cup InodesOfFirst(fs, k - 1))
                  IN  /\ r.log[k].node = fs[k]
                      /\ r.log[k].counted = fresh
                      /\ r.log[k].ret = IF fresh THEN Dsize(fs[k]) ELSE 0
            /\ \A j, k \in 1..Len(fs) :
                  (j < k /\ HasIno(fs[j]) /\ HasIno(fs[k]) /\ fs[j].ino = fs[k].ino)
                      => ~r.log[k].counted
            /\ r.size = SumRet(r.log, Len(r.log))

(* C1's case: a call in which a file node was counted and a later node    *)
(* with the same inode, and a different size of its own, was not.          *)
C1_Witness ==
    /\ returns # <<>>
    /\ \E j, k \in 1..Len(returns[1].log) :
          /\ j < k
          /\ HasIno(returns[1].log[j].node)
          /\ HasIno(returns[1].log[k].node)
          /\ returns[1].log[j].node.ino = returns[1].log[k].node.ino
          /\ returns[1].log[j].counted
          /\ Dsize(returns[1].log[k].node) > Dsize(returns[1].log[j].node)
          /\ returns[1].log[k].ret = 0
          /\ returns[1].size = Dsize(returns[1].log[j].node)

RECURSIVE AfterFirst(_, _, _)

\* get_entry_size over the elements from the k-th on, the set carried along
AfterFirst(items, k, acc) ==
    IF k > Len(items)
    THEN acc
    ELSE LET r == GetEntrySize(items[k], acc.seen)
         IN  AfterFirst(items, k + 1, [size |-> acc.size + r.size, seen |-> r.seen])

(* C2: on a sequence with at least one element get_entry_size returns the  *)
(* sum of get_entry_size over the elements after the first, the set        *)
(* carried from one to the next; the first element adds neither its dsize  *)
(* nor its inode, and a sequence of just one element gives 0.              *)
C2_MetadataSkipped ==
    \A c \in 1..Len(returns) :
        (IsList(entry) /\ Len(entry.items) >= 1) =>
            LET r == returns[c]
                sum == AfterFirst(entry.items, 2, [size |-> 0, seen |-> r.before])
            IN  /\ r.size = sum.size
                /\ r.after = sum.seen
                /\ Len(entry.items) = 1 => (r.size = 0 /\ r.after = r.before)

\* C2's case: a directory of just its metadata, which has a dsize and an inode.
C2_Witness ==
    /\ returns # <<>>
    /\ entry = List(<<DirMeta>>)
    /\ Dsize(DirMeta) > 0
    /\ DirMeta.ino \notin returns[1].before
    /\ returns[1].size = 0

(* C3: called with an empty dedup set on a tree in which no two file nodes *)
(* carry the same inode, get_entry_size returns the sum of the dsize of    *)
(* all file nodes, an absent dsize counting as 0.                          *)
C3_DistinctFilesSum ==
    \A c \in 1..Len(returns) :
        LET fs == FilesOf(entry)
        IN  (returns[c].before = {} /\ DistinctInodes(fs))
                => returns[c].size = SumDsize(fs, Len(fs))

(* C3's case: a file with an inode and a size two directories deep, and    *)
(* the call returning that size.                                           *)
C3_Witness ==
    /\ returns # <<>>
    /\ returns[1].before = {}
    /\ IsList(entry) /\ Len(entry.items) = 2
    /\ IsList(entry.items[2]) /\ Len(entry.items[2].items) = 2
    /\ IsDict(entry.items[2].items[2])
    /\ HasIno(entry.items[2].items[2])
    /\ returns[1].size = MaxDsize

(* C9: get_entry_size(entry, S) leaves S as S united with the inodes of    *)
(* the file nodes of the tree (metadata elements are not file nodes); a    *)
(* call without a set leaves the caller's set alone; on a node that is     *)
(* neither a mapping nor a non-empty sequence it returns 0 and S is left   *)
(* as it was.                                                              *)
C9_OnlyInserts ==
    \A c \in 1..Len(returns) :
        LET r == returns[c]
        IN  /\ r.after = r.before \cup InodesOf(FilesOf(entry))
            /\ ~r.own => seen_inodes = r.after
            /\ Unrecognized(entry) => (r.size = 0 /\ r.after = r.before)

(* C9's case: a directory whose metadata carries inode 1, called with the  *)
(* set {}, which the call leaves as {2}.                                   *)
C9_Witness ==
    /\ returns # <<>>
    /\ IsList(entry) /\ Len(entry.items) > 1
    /\ entry.items[1] = DirMeta
    /\ ~returns[1].own
    /\ returns[1].before = {}
    /\ seen_inodes = {2}

----------------------------------------------------------------------------
(* Properties of generate_metadata, on main with one input file.           *)

\* the summary of the one input file has been written
Summarized == Len(metadata_files) = 1 /\ Len(outputs) = 1

TheData == metadata_files[1].data

\* line 95: the data array has more than 3 elements
HasRootEntry == metadata_files[1].has_data /\ IsList(TheData) /\ Len(TheData.items) > 3

RootEntry == TheData.items[4]

RootItems == Len(metadata_files) = 1 /\ HasRootEntry /\ IsList(RootEntry) /\ Len(RootEntry.items) > 0

TheSummary == outputs[1].metadata

SummaryKeys == TheSummary.keys \ PassThrough

\* a directory node: a sequence whose first element is a mapping
IsDirectory(e) == IsList(e) /\ Len(e.items) > 0 /\ IsDict(e.items[1])

\* a root child that the breakdown lists
Recognized(e) == IsDict(e) \/ IsDirectory(e)

RootChildren == SubSeq(RootEntry.items, 2, Len(RootEntry.items))

RECURSIVE SumSizes(_, _)

SumSizes(top, n) == IF n = 0 THEN 0 ELSE SumSizes(top, n - 1) + top[n][1]

SumOfTopEntries == SumSizes(TheSummary.top_entries, Len(TheSummary.top_entries))

\* the indexes of the recognized root children, and the k-th of them
RecognizedAt == {k \in 1..Len(RootChildren) : Recognized(RootChildren[k])}

RECURSIVE KthOf(_, _)

KthOf(S, k) ==
    LET least == CHOOSE x \in S : \A y \in S : x <= y
    IN  IF k = 1 THEN least ELSE KthOf(S \ {least}, k - 1)

\* the inodes of the file nodes of the recognized root children before the k-th child
InodesBefore(k) ==
    UNION {InodesOf(FilesOf(RootChildren[j])) : j \in {x \in RecognizedAt : x < k}}

(* C4: top_entries lists the recognized root children in their order; the *)
(* size of each is its aggregate against the inodes of the file nodes of   *)
(* the recognized children before it, and of nothing else: an inode found  *)
(* under an earlier entry is not counted again under a later one.          *)
C4_SharedSetInOrder ==
    (Summarized /\ RootItems) =>
        LET top == TheSummary.top_entries
        IN  /\ Len(top) = Cardinality(RecognizedAt)
            /\ \A n \in 1..Len(top) :
                  LET k == KthOf(RecognizedAt, n)
                      child == RootChildren[k]
                  IN  /\ top[n][1] = GetEntrySize(child, InodesBefore(k)).size
                      /\ top[n][2] = IF IsDict(child)
                                     THEN Get(child, "name", "unknown")
                                     ELSE Get(child.items[1], "name", "unknown")
                      /\ top[n][3] = (IsList(child) /\ Len(child.items) > 1)

\* two directories among the root children each hold a file with the same inode
CrossLinked ==
    \E j, k \in 1..Len(RootChildren) :
        /\ j < k
        /\ IsDirectory(RootChildren[j]) /\ Len(RootChildren[j].items) > 1
        /\ IsDirectory(RootChildren[k]) /\ Len(RootChildren[k].items) > 1
        /\ InodesOf(FilesOf(RootChildren[j])) \cap InodesOf(FilesOf(RootChildren[k])) # {}

(* C4's case: two top-level directories each holding a link to one inode;  *)
(* the first entry has the size, the second has size 0.                    *)
C4_Witness ==
    /\ Summarized /\ RootItems
    /\ Len(RootChildren) = 2
    /\ CrossLinked
    /\ Len(TheSummary.top_entries) = 2
    /\ TheSummary.top_entries[1][1] > 0
    /\ TheSummary.top_entries[2] = <<0, "d", TRUE>>
    /\ Dsize(RootChildren[2].items[2]) > 0

\* a root child that is a non-empty sequence whose first element is no mapping
HeadlessAt == {k \in 1..Len(RootChildren) :
                 IsList(RootChildren[k]) /\ Len(RootChildren[k].items) > 0
                 /\ ~IsDict(RootChildren[k].items[1])}

\* the summary of a document whose "data" is the array with this root entry
SummaryOf(root_entry) ==
    GenerateMetadata(Document(TRUE, PassThrough, TRUE, DataArray(root_entry))).metadata

(* The fixtures of the cross-pass discrepancy: a root of two directories,  *)
(* each holding file nodes only, with an inode found in both.              *)
HardLinkFixtures ==
    {List(<<DirMeta, List(<<DirMeta>> \o a), List(<<DirMeta>> \o b)>>) :
        a \in UNION {[1..n -> DocumentFiles] : n \in 1..(MaxNodes - 3)},
        b \in {<<f>> : f \in DocumentFiles}}

C7_TotalEntriesCountsAll ==
    (Summarized /\ RootItems) =>
        /\ TheSummary.total_entries = Len(RootEntry.items) - 1
        /\ TheSummary.total_entries >= Len(TheSummary.top_entries)
        /\ (TheSummary.total_entries = Len(TheSummary.top_entries))
               <=> (\A k \in 1..Len(RootChildren) : Recognized(RootChildren[k]))

\* C7's case: a root with a recognized child and three of unrecognized shape.
C7_Witness ==
    /\ Summarized /\ RootItems
    /\ \E k \in 1..Len(RootChildren) : RootChildren[k] = Scalar
    /\ \E k \in 1..Len(RootChildren) : RootChildren[k] = List(<<>>)
    /\ \E k \in 1..Len(RootChildren) : RootChildren[k] = List(<<Scalar>>)
    /\ TheSummary.total_entries = 4
    /\ Len(TheSummary.top_entries) = 1

(* C8, as stated: the summary holds total_size, top_entries and            *)
(* total_entries together, when the data array has more than 3 elements    *)
(* and element 3 is a directory node, or none of them.                     *)
C8_AllOrNone ==
    Summarized =>
        /\ SummaryKeys \in {{}, {"total_size", "top_entries", "total_entries"}}
        /\ (SummaryKeys # {}) <=> (HasRootEntry /\ IsDirectory(RootEntry))
        /\ PassThrough \subseteq TheSummary.keys

(* C10: when the root's metadata element is a mapping and every root child *)
(* is of a recognized shape, the sizes in top_entries add up to total_size.*)
C10_BreakdownAddsUp ==
    (Summarized /\ RootItems /\ IsDict(RootEntry.items[1])
        /\ \A k \in 1..Len(RootChildren) : Recognized(RootChildren[k]))
        => SumOfTopEntries = TheSummary.total_size

(* C10's case: a file and a directory at the top level holding the same    *)
(* inode, a second link to it nested in the directory.                     *)
C10_Witness ==
    /\ Summarized /\ RootItems /\ IsDict(RootEntry.items[1])
    /\ Len(RootChildren) = 2
    /\ IsDict(RootChildren[1]) /\ HasIno(RootChildren[1])
    /\ IsDirectory(RootChildren[2])
    /\ Len(FilesOf(RootChildren[2])) = 2
    /\ RootChildren[1].ino \in InodesOf(FilesOf(RootChildren[2]))
    /\ TheSummary.total_size > 0
    /\ SumOfTopEntries = TheSummary.total_size
    /\ TheSummary.top_entries[2][1] > 0

====
